---- MODULE Spec2Model ----
(***************************************************************************)
(* Model of the two MEX entry points of the repository:                    *)
(*   src/infoGauss.c          mutual information of a Gaussian mixture     *)
(*   src/dinidlGaussTheta.c   minimal communication information loss       *)
(*                                                                         *)
(* Three parts of the program are modelled, each with its own              *)
(* specification over the same variables:                                  *)
(*   SpecInteg  the batch integrand NDIntegrand (both variants)            *)
(*   SpecEntry  the parameter set-up of both entry points up to the        *)
(*              integrator calls                                           *)
(*   Spec       the bracket search and minimizer loop of                   *)
(*              dinidlGaussTheta.c's mexFunction (SpecMin: the same with   *)
(*              the refinement loop followed past max_iter)                *)
(*                                                                         *)
(* Doubles: a value is an integer number of halves (fixed point, 2 stands   *)
(* for 1.0).  Finite doubles lie in -FMax..FMax; every operation rounds     *)
(* toward zero and overflows to an infinity beyond FMax; the special values *)
(* +Inf, -Inf and NaN follow IEEE 754.  The losses of the bracket search    *)
(* are only compared and are plain integers.                                *)
(***************************************************************************)
EXTENDS Integers, Sequences, FiniteSets, TLC

(* ------------------------------ bounds -------------------------------- *)
\* largest finite magnitude of the modelled doubles, in halves (stands for
\* DBL_MAX)
FMax == 60
\* largest batch size numx the integrator hands to the integrand
MaxNumx == 2
\* the loss takes its tabulated values in 0..NumValues-1
NumValues == 3
\* doublings per side whose loss is tabulated value by value; beyond them the
\* loss continues with a constant slope per doubling
TableDepth == 1
\* refinement steps followed under Spec
IterObserved == 2

(* ------------------------- program constants -------------------------- *)
\* binary exponent at which a double overflows to an infinity: x >= 2^1024
DBL_MAX_EXP == 1024
\* int max_iter = 1000
max_iter == 1000

(* ------------------------- double arithmetic -------------------------- *)
\* the double n and the double k/2
R(n) == 2 * n
Halves(k) == k

PInf == FMax + 1
NInf == -(FMax + 1)
NaN == FMax + 2
\* content of an output cell that was never written
Unwritten == FMax + 3

IsFinite(v) == v >= -FMax /\ v <= FMax
IsNaN(v) == v = NaN
IsInf(v) == v = PInf \/ v = NInf

\* rounding of an exact result into the finite range
FRound(n) == IF n > FMax THEN PInf ELSE IF n < -FMax THEN NInf ELSE n

Abs(n) == IF n < 0 THEN -n ELSE n

\* the quotient n/d of two integers, d > 0, rounded toward zero
Trunc(n, d) == IF n >= 0 THEN n \div d ELSE -((-n) \div d)

FNeg(a) == IF IsNaN(a) THEN NaN ELSE -a

FAdd(a, b) ==
    IF IsNaN(a) \/ IsNaN(b) THEN NaN
    ELSE IF IsInf(a) THEN (IF IsInf(b) /\ a # b THEN NaN ELSE a)
    ELSE IF IsInf(b) THEN b
    ELSE FRound(a + b)

FSub(a, b) == FAdd(a, FNeg(b))

FMul(a, b) ==
    IF IsNaN(a) \/ IsNaN(b) THEN NaN
    ELSE IF IsInf(a) \/ IsInf(b)
         THEN (IF a = 0 \/ b = 0 THEN NaN
               ELSE IF (a > 0) = (b > 0) THEN PInf ELSE NInf)
    ELSE FRound(Trunc(a * b, 2))

FDiv(a, b) ==
    IF IsNaN(a) \/ IsNaN(b) THEN NaN
    ELSE IF IsInf(a) THEN (IF IsInf(b) THEN NaN
                           ELSE IF b >= 0 THEN a ELSE -a)
    ELSE IF IsInf(b) THEN 0
    ELSE IF b = 0 THEN (IF a = 0 THEN NaN ELSE IF a > 0 THEN PInf ELSE NInf)
    ELSE FRound(IF b > 0 THEN Trunc(2 * a, b) ELSE Trunc(-(2 * a), -b))

\* natural logarithm: log(0) = -Inf, log of a negative = NaN
FLog(a) ==
    IF IsNaN(a) THEN NaN
    ELSE IF a = PInf THEN PInf
    ELSE IF a < 0 THEN NaN
    ELSE IF a = 0 THEN NInf
    ELSE IF a < 2 THEN -1
    ELSE IF a < 4 THEN 0
    ELSE IF a < 6 THEN 1
    ELSE IF a < 9 THEN 2
    ELSE IF a < 15 THEN 3
    ELSE IF a < 25 THEN 4
    ELSE IF a < 41 THEN 5
    ELSE IF a < 67 THEN 6
    ELSE IF a < 110 THEN 7
    ELSE 8

\* exponential: underflows to 0, overflows to +Inf
FExp(a) ==
    IF IsNaN(a) THEN NaN
    ELSE IF a = PInf THEN PInf
    ELSE IF a < -1 THEN 0
    ELSE IF a = -1 THEN 1
    ELSE IF a = 0 THEN 2
    ELSE IF a = 1 THEN FRound(3)
    ELSE IF a = 2 THEN FRound(5)
    ELSE IF a = 3 THEN FRound(8)
    ELSE IF a = 4 THEN FRound(14)
    ELSE IF a = 5 THEN FRound(24)
    ELSE IF a = 6 THEN FRound(40)
    ELSE IF a = 7 THEN FRound(66)
    ELSE IF a = 8 THEN FRound(109)
    ELSE PInf

\* square root: NaN below zero
FSqrt(a) ==
    IF IsNaN(a) THEN NaN
    ELSE IF a = PInf THEN PInf
    ELSE IF a < 0 THEN NaN
    ELSE CHOOSE r \in 0..(2 * a) : r * r <= 2 * a /\ (r + 1) * (r + 1) > 2 * a

VARIABLES
    pc,
    \* ---- NDIntegrand ----
    variant,    \* "info" (infoGauss.c) or "di" (dinidlGaussTheta.c)
    xdim, numx,
    xs,         \* the flat coordinate array x, numx*xdim doubles
    params,     \* the coefficient array par
    indx,       \* loop counter over the batch
    xcur,       \* offset of the pointer x from the start of the array
    pcur,       \* offset of the pointer params from the start of the array
    dival,      \* the output array, cell -> value
    nwrites,    \* cell -> number of stores into it
    ret,        \* the return code
    \* ---- the entry points up to the integrator ----
    entry,      \* "infoGauss" or "dinidlGaussTheta"
    par,        \* the data of the input array prhs[0]
    dims,       \* the dimensions of prhs[0], as the ints that (int*) reads
    mwInts,     \* ints per mwSize of the build: 1 (32-bit dims) or 2 (64-bit)
    par0, dims0,\* par and dims as they were when the entry point was called
    calls,      \* the integrator calls made so far: dimension and coefficients
    out,        \* the output scalar plhs[0]
    \* ---- bracket search and minimizer loop ----
    loss,       \* the loss th |-> diTheta(th, par) of this call's par
    thl, thm, thr,
    dil, dim, dir,
    s,          \* the state of the gsl minimizer
    iter,
    nLeft, nRight,  \* doublings done by the first and by the second loop
    nIterate,   \* calls of gsl_min_fminimizer_iterate
    iterLimit   \* refinement steps followed by the model

ivars == <<variant, xdim, numx, xs, params, indx, xcur, pcur, dival, nwrites, ret>>
evars == <<entry, par, dims, mwInts, par0, dims0, calls, out>>
bvars == <<loss, thl, thm, thr, dil, dim, dir, s, iter, nLeft, nRight,
           nIterate, iterLimit>>
vars == <<pc, ivars, evars, bvars>>

NoTheta == [m |-> 0, e |-> 0]
NoMin == [x_minimum |-> NoTheta, x_lower |-> NoTheta, x_upper |-> NoTheta,
          f_minimum |-> 0]

BracketIdle ==
    /\ loss = <<>> /\ thl = NoTheta /\ thm = NoTheta /\ thr = NoTheta
    /\ dil = 0 /\ dim = 0 /\ dir = 0 /\ s = NoMin /\ iter = 0
    /\ nLeft = 0 /\ nRight = 0 /\ nIterate = 0 /\ iterLimit = 0

IntegIdle ==
    /\ variant = "none" /\ xdim = 0 /\ numx = 0 /\ xs = <<>> /\ params = <<>>
    /\ indx = 0 /\ xcur = 0 /\ pcur = 0 /\ dival = <<>> /\ nwrites = <<>>
    /\ ret = -1

EntryIdle ==
    /\ entry = "none" /\ par = <<>> /\ dims = <<>> /\ mwInts = 0
    /\ par0 = <<>> /\ dims0 = <<>> /\ calls = <<>> /\ out = Unwritten

(* ----------------------------- NDIntegrand ---------------------------- *)
mu == <<R(1), R(-1)>>

\* params[i] through a pointer advanced by off
PAt(prm, off, i) == prm[off + i + 1]

\* the loop over the coordinates of one point: xc = *x + mu; x++
RECURSIVE CoordLoop(_, _, _, _, _)
CoordLoop(xsArg, xd, indd, m, acc) ==
    IF indd >= xd THEN acc
    ELSE LET xc == FAdd(xsArg[acc.xcur + 1], m)
         IN  CoordLoop(xsArg, xd, indd + 1, m,
                       [xc2sum |-> FAdd(acc.xc2sum, FMul(xc, xc)),
                        xcprod |-> FMul(acc.xcprod, xc),
                        xcur   |-> acc.xcur + 1])

\* body of the class loop, divergence variant
ClassStepDi(st, indmu, xsArg, xd, prm) ==
    LET c      == CoordLoop(xsArg, xd, 0, mu[indmu + 1],
                            [xc2sum |-> 0, xcprod |-> R(1), xcur |-> st.xcur])
        xback  == c.xcur - xd
        xc2sum == FMul(c.xc2sum, Halves(-1))
        po     == st.pcur + indmu
        psx    == FMul(PAt(prm, po, 2),
                       FExp(FAdd(FMul(PAt(prm, po, 4), xc2sum),
                                 FMul(PAt(prm, po, 6), c.xcprod))))
        pisx   == FMul(PAt(prm, po, 0), FExp(FMul(PAt(prm, po, 8), xc2sum)))
        dinow  == FAdd(st.dinow, FMul(psx, FLog(FDiv(psx, pisx))))
    IN  [dinow |-> dinow,
         px    |-> FAdd(st.px, psx),
         pix   |-> FAdd(st.pix, pisx),
         xcur  |-> xback,
         pcur  |-> po - indmu,
         brk   |-> ~IsFinite(dinow)]

\* body of the class loop, entropy variant
ClassStepInfo(st, indmu, xsArg, xd, prm) ==
    LET c      == CoordLoop(xsArg, xd, 0, mu[indmu + 1],
                            [xc2sum |-> 0, xcprod |-> R(1), xcur |-> st.xcur])
        xback  == c.xcur - xd
        xc2sum == FMul(c.xc2sum, Halves(-1))
        po     == st.pcur + indmu
        psx    == FMul(PAt(prm, po, 2),
                       FExp(FAdd(FMul(PAt(prm, po, 4), xc2sum),
                                 FMul(PAt(prm, po, 6), c.xcprod))))
        infonow == FAdd(st.dinow, FMul(psx, FLog(psx)))
    IN  [dinow |-> infonow,
         px    |-> FAdd(st.px, psx),
         pix   |-> st.pix,
         xcur  |-> xback,
         pcur  |-> po - indmu,
         brk   |-> ~IsFinite(infonow)]

\* PointDi with the trailing x += xdim left out
PointDi_NoAdvance(xsArg, xd, cur, poff, prm) ==
    LET st0 == [dinow |-> 0, px |-> 0, pix |-> 0, xcur |-> cur, pcur |-> poff,
                brk |-> FALSE]
        st1 == ClassStepDi(st0, 0, xsArg, xd, prm)
        st2 == IF st1.brk THEN st1 ELSE ClassStepDi(st1, 1, xsArg, xd, prm)
        fin == FSub(st2.dinow, FMul(st2.px, FLog(FDiv(st2.px, st2.pix))))
    IN  [val  |-> IF IsFinite(st2.dinow)
                  THEN (IF IsFinite(fin) THEN fin ELSE 0)
                  ELSE 0,
         xcur |-> st2.xcur,
         pcur |-> st2.pcur]

\* PointDi with a non-finite class term dropped from the sum instead of
\* zeroing the point
PointDi_SkipTerm(xsArg, xd, cur, poff, prm) ==
    LET st0 == [dinow |-> 0, px |-> 0, pix |-> 0, xcur |-> cur, pcur |-> poff,
                brk |-> FALSE]
        st1 == ClassStepDi(st0, 0, xsArg, xd, prm)
        st2 == ClassStepDi([st1 EXCEPT !.dinow = IF st1.brk THEN 0 ELSE @],
                           1, xsArg, xd, prm)
        sum == IF st2.brk THEN (IF st1.brk THEN 0 ELSE st1.dinow) ELSE st2.dinow
        fin == FSub(sum, FMul(st2.px, FLog(FDiv(st2.px, st2.pix))))
    IN  [val  |-> IF IsFinite(fin) THEN fin ELSE 0,
         xcur |-> st2.xcur + xd,
         pcur |-> st2.pcur]

\* one iteration of the loop over the batch, divergence variant: the value
\* stored into dival[indx] and the two cursors after it
PointDi(xsArg, xd, cur, poff, prm) ==
    LET st0 == [dinow |-> 0, px |-> 0, pix |-> 0, xcur |-> cur, pcur |-> poff,
                brk |-> FALSE]
        st1 == ClassStepDi(st0, 0, xsArg, xd, prm)
        st2 == IF st1.brk THEN st1 ELSE ClassStepDi(st1, 1, xsArg, xd, prm)
        fin == FSub(st2.dinow, FMul(st2.px, FLog(FDiv(st2.px, st2.pix))))
    IN  [val  |-> IF IsFinite(st2.dinow)
                  THEN (IF IsFinite(fin) THEN fin ELSE 0)
                  ELSE 0,
         xcur |-> st2.xcur + xd,
         pcur |-> st2.pcur]

\* PointInfo with the isfinite tests left out
PointInfo_Raw(xsArg, xd, cur, poff, prm) ==
    LET st0 == [dinow |-> 0, px |-> 0, pix |-> 0, xcur |-> cur, pcur |-> poff,
                brk |-> FALSE]
        st1 == ClassStepInfo(st0, 0, xsArg, xd, prm)
        st2 == IF st1.brk THEN st1 ELSE ClassStepInfo(st1, 1, xsArg, xd, prm)
    IN  [val  |-> FSub(st2.dinow, FMul(st2.px, FLog(st2.px))),
         xcur |-> st2.xcur + xd,
         pcur |-> st2.pcur]

\* one iteration of the loop over the batch, entropy variant
PointInfo(xsArg, xd, cur, poff, prm) ==
    LET st0 == [dinow |-> 0, px |-> 0, pix |-> 0, xcur |-> cur, pcur |-> poff,
                brk |-> FALSE]
        st1 == ClassStepInfo(st0, 0, xsArg, xd, prm)
        st2 == IF st1.brk THEN st1 ELSE ClassStepInfo(st1, 1, xsArg, xd, prm)
        fin == FSub(st2.dinow, FMul(st2.px, FLog(st2.px)))
    IN  [val  |-> IF IsFinite(st2.dinow)
                  THEN (IF IsFinite(fin) THEN fin ELSE 0)
                  ELSE 0,
         xcur |-> st2.xcur + xd,
         pcur |-> st2.pcur]

\* inputs of the integrand: coordinates -1, 0, 1; reference weights 0.5 and 0;
\* weights 3, 8 and NaN; scales 1 and +Inf; cross terms 0 and 1; thresholds
\* -0.5, 0.5, 1.5
CoordVals == {R(-1), 0, R(1)}
DiParams ==
    { <<p0, p1, w0, w1, R(1), a1, 0, b1, th, th>> :
        p0 \in {Halves(1)}, p1 \in {0, Halves(1)}, w0 \in {R(3)}, w1 \in {R(8), NaN},
        a1 \in {R(1), PInf}, b1 \in {0, R(1)},
        th \in {Halves(-1), Halves(1), Halves(3)} }
InfoParams ==
    { <<p0, p1, w0, w1, R(1), a1, 0, b1>> :
        p0 \in {Halves(1)}, p1 \in {0, Halves(1)}, w0 \in {R(3)}, w1 \in {R(8), NaN},
        a1 \in {R(1), PInf}, b1 \in {0, R(1)} }

InitInteg ==
    /\ pc = "integrand"
    /\ variant \in {"info", "di"}
    /\ xdim \in {1, 2}
    /\ numx \in 1..MaxNumx
    /\ xs \in [1..(numx * xdim) -> CoordVals]
    /\ params \in (IF variant = "di" THEN DiParams ELSE InfoParams)
    /\ indx = 0
    /\ xcur = 0
    /\ pcur = 0
    /\ dival = [j \in 0..(numx - 1) |-> Unwritten]
    /\ nwrites = [j \in 0..(numx - 1) |-> 0]
    /\ ret = -1
    /\ EntryIdle
    /\ BracketIdle

StorePoint(r) ==
    /\ dival' = [dival EXCEPT ![indx] = r.val]
    /\ nwrites' = [nwrites EXCEPT ![indx] = @ + 1]
    /\ xcur' = r.xcur
    /\ pcur' = r.pcur
    /\ indx' = indx + 1
    /\ UNCHANGED <<pc, variant, xdim, numx, xs, params, ret, evars, bvars>>

IntegrandPointDi ==
    /\ pc = "integrand" /\ variant = "di" /\ indx < numx
    /\ StorePoint(PointDi(xs, xdim, xcur, pcur, params))

IntegrandPointInfo ==
    /\ pc = "integrand" /\ variant = "info" /\ indx < numx
    /\ StorePoint(PointInfo(xs, xdim, xcur, pcur, params))

IntegrandReturnDi ==
    /\ pc = "integrand" /\ variant = "di" /\ indx >= numx
    /\ xcur' = xcur - numx * xdim
    /\ ret' = 0
    /\ pc' = "returned"
    /\ UNCHANGED <<variant, xdim, numx, xs, params, indx, pcur, dival, nwrites, evars, bvars>>

IntegrandReturnInfo ==
    /\ pc = "integrand" /\ variant = "info" /\ indx >= numx
    /\ xcur' = xcur - numx * xdim
    /\ ret' = 0
    /\ pc' = "returned"
    /\ UNCHANGED <<variant, xdim, numx, xs, params, indx, pcur, dival, nwrites, evars, bvars>>

NextInteg ==
    \/ IntegrandPointDi
    \/ IntegrandPointInfo
    \/ IntegrandReturnDi
    \/ IntegrandReturnInfo

SpecInteg == InitInteg /\ [][NextInteg]_vars

(* --------------------- the entry points' set-up ----------------------- *)
\* M_PI, 2.0*M_PI and sqrt(2.0*M_PI)
Pi == Halves(6)
TwoPi == FMul(R(2), Pi)
SqrtTwoPi == FSqrt(TwoPi)

\* parnum[i] of infoGauss.c: the i-th int at the address of the dimensions
ParNum(d, i) == d[i + 1]

\* the dimensions array of a rows x cols input as the ints of the build:
\* one int per dimension, or the low and the high half of each 64-bit one
DimsWords(rows, cols, w) ==
    IF w = 1 THEN <<rows, cols>> ELSE <<rows, 0, cols, 0>>

\* the coefficients of the correlated 2-D model, params[0..7]
Coeff2D(pr) ==
    LET p0 == pr[1]
        p1 == FSub(R(1), pr[1])
        a0 == FDiv(R(1), FSub(R(1), FMul(pr[2], pr[2])))
        a1 == FDiv(R(1), FSub(R(1), FMul(pr[3], pr[3])))
    IN  <<p0, p1,
          FDiv(FMul(p0, FSqrt(a0)), TwoPi), FDiv(FMul(p1, FSqrt(a1)), TwoPi),
          a0, a1, FMul(pr[2], a0), FMul(pr[3], a1)>>

\* the coefficients of the 1-D model with weights q0, q1, params[0..7]
Coeff1D(q0, q1) ==
    <<q0, q1, FDiv(q0, SqrtTwoPi), FDiv(q1, SqrtTwoPi), R(1), R(1), 0, 0>>

\* values the integrator may hand back
IntegralVals == {0, R(1)}

\* inputs of the entry points: p in {0.5, 1}, rho in {-1, -0.5, 0, 0.5, 1},
\* a scalar, a row or a column, and the three seed thresholds -0.5, 0.5, 1.5
PVals == {Halves(1), R(1)}
RhoVals == {R(-1), Halves(-1), 0, Halves(1), R(1)}
Shapes == {<<1, 1>>, <<1, 3>>, <<3, 1>>}
ThetaVals == {Halves(-1), Halves(1), Halves(3)}

InitEntry ==
    /\ pc = "called"
    /\ entry \in {"infoGauss", "dinidlGaussTheta"}
    /\ mwInts \in {1, 2}
    /\ \E sh \in Shapes :
          /\ entry = "dinidlGaussTheta" => sh[1] * sh[2] = 3
          /\ dims = DimsWords(sh[1], sh[2], mwInts)
          /\ par \in (IF sh[1] * sh[2] = 1 THEN [1..1 -> PVals]
                       ELSE {<<p, r1, r2>> : p \in PVals, r1 \in RhoVals, r2 \in RhoVals})
    /\ par0 = par
    /\ dims0 = dims
    /\ calls = <<>>
    /\ out = Unwritten
    /\ IntegIdle
    /\ BracketIdle

\* mexFunction of infoGauss.c
InfoGaussMex ==
    /\ pc = "called" /\ entry = "infoGauss"
    /\ LET d1 == IF ParNum(dims, 0) < ParNum(dims, 1)
                  THEN [dims EXCEPT ![1] = ParNum(dims, 1)] ELSE dims
           oneD == ParNum(d1, 0) = 1
           prm == IF oneD THEN Coeff1D(par[1], FSub(R(1), par[1])) ELSE Coeff2D(par)
           d2  == IF oneD THEN d1 ELSE [d1 EXCEPT ![1] = 2]
       IN  /\ dims' = d2
           /\ calls' = Append(calls, [ndim |-> ParNum(d2, 0), prm |-> prm])
           /\ \E v \in IntegralVals :
                 out' = FAdd(v, FSub(FMul(FNeg(prm[1]), FLog(prm[1])),
                                     FMul(prm[2], FLog(prm[2]))))
    /\ pc' = "returned"
    /\ UNCHANGED <<entry, par, mwInts, par0, dims0, ivars, bvars>>

\* diTheta of dinidlGaussTheta.c, called with a threshold th
DiTheta ==
    /\ pc = "called" /\ entry = "dinidlGaussTheta"
    /\ \E th \in ThetaVals :
          LET prm2 == Coeff2D(par) \o <<th, th>>
              prm1 == Coeff1D(prm2[2], par[1]) \o <<th, th>>
          IN  /\ calls' = calls \o <<[ndim |-> 2, prm |-> prm2],
                                     [ndim |-> 1, prm |-> prm1]>>
              /\ \E v2 \in IntegralVals : \E v1 \in IntegralVals :
                    out' = FAdd(v1, v2)
    /\ pc' = "returned"
    /\ UNCHANGED <<entry, par, dims, mwInts, par0, dims0, ivars, bvars>>

NextEntry ==
    \/ InfoGaussMex
    \/ DiTheta

SpecEntry == InitEntry /\ [][NextEntry]_vars

(* --------------------- claims on the entry points --------------------- *)
\* MixtureParams of the data model: p in (0,1), and rho1, rho2 in (-1,1) when
\* they are given
ValidParams(pr) ==
    /\ 0 < pr[1] /\ pr[1] < R(1)
    /\ Len(pr) = 3 => (Abs(pr[2]) < R(1) /\ Abs(pr[3]) < R(1))

\* C5 as stated: no integrator call is made from invalid MixtureParams
\* (rho_k^2 >= 1 or p outside (0,1)), nor with a coefficient
\* a_k = 1/(1-rho_k^2) that is not finite.
C5_InvalidRejectedBeforeIntegration ==
    \A i \in DOMAIN calls :
        /\ IsFinite(calls[i].prm[5]) /\ IsFinite(calls[i].prm[6])
        /\ ValidParams(par0)

\* C8 as stated: when an entry point has returned from a call with valid
\* MixtureParams, the data and the dimensions of its input are what they were
\* at the call.
C8_InputUnchanged ==
    (pc = "returned" /\ ValidParams(par0)) => (par = par0 /\ dims = dims0)

(* ------------------ bracket search and minimizer loop ----------------- *)
\* A threshold is the double m * 2^e with m in {-1, 1, 3}: the seeds -0.5, 0.5
\* and 1.5 are m * 2^-1 and th *= 2 adds one to e.  The infinities are
\* [m |-> -1 or 1, e |-> DBL_MAX_EXP].
Theta(m, e) == [m |-> m, e |-> e]

IsInfTheta(t) == t.e >= DBL_MAX_EXP

\* th *= 2 in double arithmetic: exact, or an infinity once |m| * 2^(e+1)
\* reaches 2^DBL_MAX_EXP
Double(t) ==
    IF IsInfTheta(t) THEN t
    ELSE IF (Abs(t.m) = 1 /\ t.e + 1 >= DBL_MAX_EXP)
            \/ (Abs(t.m) = 3 /\ t.e + 2 >= DBL_MAX_EXP)
         THEN Theta(IF t.m < 0 THEN -1 ELSE 1, DBL_MAX_EXP)
    ELSE Theta(t.m, t.e + 1)

\* a < b on thresholds
OrderKey(t) ==
    LET k == 2 * (t.e + 2) + (IF Abs(t.m) = 3 THEN 3 ELSE 0)
    IN  IF t.m < 0 THEN -k ELSE k
Less(a, b) == OrderKey(a) < OrderKey(b)

\* the loss functions of the model: a value for 0.5, a value for each of the
\* first TableDepth doublings of -0.5 and of 1.5, and a slope per further
\* doubling on each side
Values == 0..(NumValues - 1)
Slopes == {-1, 0, 1}
LossFamily ==
    [M : Values, L : [0..TableDepth -> Values], R : [0..TableDepth -> Values],
     tailL : Slopes, tailR : Slopes]

\* diTheta(th, par) for the fixed par of the call: the same value for the same
\* threshold every time
LossAt(t) ==
    LET n == t.e + 1
    IN  IF t.m < 0
        THEN (IF n <= TableDepth THEN loss.L[n]
              ELSE loss.L[TableDepth] + loss.tailL * (n - TableDepth))
        ELSE IF t.m = 1 /\ n = 0 THEN loss.M
        ELSE (IF n <= TableDepth THEN loss.R[n]
              ELSE loss.R[TableDepth] + loss.tailR * (n - TableDepth))

\* mexFunction has no statement that surfaces a condition to the caller: no
\* mexErrMsgTxt, no mexWarnMsgTxt, no second output
Reported == FALSE

InitBracket(family, limit) ==
    /\ pc = "seed"
    /\ loss \in family
    /\ thl = Theta(-1, -1) /\ thm = Theta(1, -1) /\ thr = Theta(3, -1)
    /\ dil = 0 /\ dim = 0 /\ dir = 0
    /\ s = NoMin
    /\ iter = 0
    /\ nLeft = 0 /\ nRight = 0 /\ nIterate = 0
    /\ iterLimit = limit
    /\ IntegIdle
    /\ EntryIdle

Init == InitBracket(LossFamily, IterObserved)

\* the loss functions under which the refinement loop is followed to the end
MinFamily ==
    {l \in LossFamily : l.M = 1 /\ l.tailL = 1 /\ l.tailR = 1
                          /\ l.L[TableDepth] = 1 /\ l.R[TableDepth] = 1}

InitMin == InitBracket(MinFamily, max_iter + 1)

\* double dil = diTheta(thl,par); dim = ...; dir = ...
SeedBracket ==
    /\ pc = "seed"
    /\ dil' = LossAt(thl) /\ dim' = LossAt(thm) /\ dir' = LossAt(thr)
    /\ pc' = "left"
    /\ UNCHANGED <<loss, thl, thm, thr, s, iter, nLeft, nRight, nIterate,
                   iterLimit, ivars, evars>>

\* ExpandLeft without dir=dim
ExpandLeft_StaleHigh ==
    /\ pc = "left" /\ dil < dim
    /\ dim' = dil
    /\ thr' = thm /\ thm' = thl
    /\ thl' = Double(thl)
    /\ dil' = LossAt(thl')
    /\ nLeft' = nLeft + 1
    /\ UNCHANGED <<pc, loss, dir, s, iter, nRight, nIterate, iterLimit, ivars, evars>>

\* one turn of while(dil<dim)
ExpandLeft ==
    /\ pc = "left" /\ dil < dim
    /\ dir' = dim /\ dim' = dil
    /\ thr' = thm /\ thm' = thl
    /\ thl' = Double(thl)
    /\ dil' = LossAt(thl')
    /\ nLeft' = nLeft + 1
    /\ UNCHANGED <<pc, loss, s, iter, nRight, nIterate, iterLimit, ivars, evars>>

\* exit of while(dil<dim)
LeftDone ==
    /\ pc = "left" /\ ~(dil < dim)
    /\ pc' = "right"
    /\ UNCHANGED <<bvars, ivars, evars>>

\* ExpandRight without dil=dim
ExpandRight_StaleLow ==
    /\ pc = "right" /\ dir < dim
    /\ dim' = dir
    /\ thl' = thm /\ thm' = thr
    /\ thr' = Double(thr)
    /\ dir' = LossAt(thr')
    /\ nRight' = nRight + 1
    /\ UNCHANGED <<pc, loss, dil, s, iter, nLeft, nIterate, iterLimit, ivars, evars>>

\* one turn of while(dir<dim)
ExpandRight ==
    /\ pc = "right" /\ dir < dim
    /\ dil' = dim /\ dim' = dir
    /\ thl' = thm /\ thm' = thr
    /\ thr' = Double(thr)
    /\ dir' = LossAt(thr')
    /\ nRight' = nRight + 1
    /\ UNCHANGED <<pc, loss, s, iter, nLeft, nIterate, iterLimit, ivars, evars>>

\* exit of while(dir<dim): the triple is handed to the minimizer next
RightDone ==
    /\ pc = "right" /\ ~(dir < dim)
    /\ pc' = "set"
    /\ UNCHANGED <<bvars, ivars, evars>>

\* iter = 0; gsl_min_fminimizer_set (s, &dith, thm, thl, thr)
MinimizerSet ==
    /\ pc = "set"
    /\ iter' = 0
    /\ s' = [x_minimum |-> thm, x_lower |-> thl, x_upper |-> thr,
             f_minimum |-> LossAt(thm)]
    /\ pc' = "iterate"
    /\ UNCHANGED <<loss, thl, thm, thr, dil, dim, dir, nLeft, nRight, nIterate,
                   iterLimit, ivars, evars>>

\* one turn of the do-while: the minimizer narrows its interval in a way the
\* program does not decide, thl and thr are read back, and the loop goes on
\* while the interval test answers GSL_CONTINUE and iter < max_iter
Iterate ==
    /\ pc = "iterate" /\ nIterate < iterLimit
    /\ \E lo \in {s.x_lower, s.x_minimum} : \E hi \in {s.x_upper, s.x_minimum} :
          /\ (lo = s.x_lower \/ hi = s.x_upper)
          /\ s' = [s EXCEPT !.x_lower = lo, !.x_upper = hi]
          /\ thl' = lo /\ thr' = hi
    /\ nIterate' = nIterate + 1
    /\ \E continue \in BOOLEAN :
          pc' = IF continue /\ iter < max_iter THEN "iterate" ELSE "result"
    /\ UNCHANGED <<loss, thm, dil, dim, dir, iter, nLeft, nRight, iterLimit,
                   ivars, evars>>

\* *di = gsl_min_fminimizer_f_minimum (s)
Result ==
    /\ pc = "result"
    /\ out' = s.f_minimum
    /\ pc' = "done"
    /\ UNCHANGED <<bvars, ivars, entry, par, dims, mwInts, par0, dims0, calls>>

Next ==
    \/ SeedBracket
    \/ ExpandLeft
    \/ LeftDone
    \/ ExpandRight
    \/ RightDone
    \/ MinimizerSet
    \/ Iterate
    \/ Result

Spec == Init /\ [][Next]_vars

SpecMin == InitMin /\ [][Next]_vars

(* ------------------- claims on the bracket search --------------------- *)
\* C1: the triple handed to the minimizer carries the losses of its own three
\* points, and the middle loss is at most each outer loss.
C1_BracketAtHandOff ==
    pc = "set" =>
        /\ dil = LossAt(thl) /\ dim = LossAt(thm) /\ dir = LossAt(thr)
        /\ dim <= dil /\ dim <= dir

\* a hand-off after an expansion to the right, with the middle loss strictly
\* below both outer losses
C1_Witness ==
    pc = "set" /\ nRight >= 2 /\ dim < dil /\ dim < dir

\* C2 as stated: theta_low < theta_mid < theta_high at every loop head and at
\* the hand-off to the minimizer.
C2_OrderedTriple ==
    pc \in {"left", "right", "set"} => (Less(thl, thm) /\ Less(thm, thr))

\* C3 as stated: the refinement loop performs at most max_iter iterate steps.
C3_AtMostMaxIter ==
    nIterate <= max_iter

\* C4 as stated: a search that has doubled a threshold through every finite
\* double without finding a minimum (the threshold is now an infinity) has
\* surfaced a reportable condition.
C4_RunawayReported ==
    (pc \in {"left", "right", "set"} /\ (IsInfTheta(thl) \/ IsInfTheta(thr)))
        => Reported

\* C10: once the first loop has doubled theta_low at least once, the high loss
\* is strictly above the middle loss from its exit on, and the second loop
\* never doubles theta_high.
C10_OnePhaseOnly ==
    nLeft >= 1 =>
        /\ nRight = 0
        /\ pc \in {"right", "set"} => dim < dir

\* a hand-off after two doublings of theta_low, theta_high being negative
C10_Witness ==
    pc = "set" /\ nLeft >= 2 /\ nRight = 0 /\ thr.m < 0

(* ------------------------ claims on NDIntegrand ----------------------- *)
\* the coordinates of point j of the batch, as a batch of its own
PointOf(j) == SubSeq(xs, j * xdim + 1, (j + 1) * xdim)

Fresh == [dinow |-> 0, px |-> 0, pix |-> 0, xcur |-> 0, pcur |-> 0, brk |-> FALSE]

\* the class step of class k at point j, taken from zeroed accumulators
ClassAt(j, k) ==
    IF variant = "di" THEN ClassStepDi(Fresh, k, PointOf(j), xdim, params)
    ELSE ClassStepInfo(Fresh, k, PointOf(j), xdim, params)

\* the term of class k at point j
TermAt(j, k) == ClassAt(j, k).dinow

\* the mixture term subtracted last at point j
MixAt(j) ==
    LET px  == FAdd(ClassAt(j, 0).px, ClassAt(j, 1).px)
        pix == FAdd(ClassAt(j, 0).pix, ClassAt(j, 1).pix)
    IN  IF variant = "di" THEN FMul(px, FLog(FDiv(px, pix)))
        ELSE FMul(px, FLog(px))

\* point j evaluated alone, in a batch of size 1
AloneAt(j) ==
    IF variant = "di" THEN PointDi(PointOf(j), xdim, 0, 0, params).val
    ELSE PointInfo(PointOf(j), xdim, 0, 0, params).val

\* C6: whatever the intermediate values, every cell of the batch is stored
\* exactly once, every stored value is finite, and the integrand returns 0
\* after the last point.
C6_AllFinite ==
    /\ \A j \in 0..(numx - 1) :
          IF j < indx THEN nwrites[j] = 1 /\ IsFinite(dival[j])
          ELSE nwrites[j] = 0 /\ dival[j] = Unwritten
    /\ (pc = "returned") => (ret = 0 /\ indx = numx)

\* a returned batch in which a non-finite raw value was replaced by 0
C6_Witness ==
    /\ pc = "returned" /\ numx >= 2
    /\ \E j \in 0..(numx - 1) :
          ~IsFinite(FSub(FAdd(TermAt(j, 0), TermAt(j, 1)), MixAt(j))) /\ dival[j] = 0
    /\ \E j \in 0..(numx - 1) : dival[j] # 0

\* C7: the value stored for a point of a batch is the value the point gets
\* when evaluated alone, and both cursors are back at the start of the next
\* point at every loop head.
C7_PointwiseIndependent ==
    /\ \A j \in 0..(numx - 1) : j < indx => dival[j] = AloneAt(j)
    /\ pc = "integrand" => (xcur = indx * xdim /\ pcur = 0)

\* a returned batch of two different points with two different values, the
\* second of them not 0
C7_Witness ==
    /\ pc = "returned" /\ numx >= 2
    /\ PointOf(0) # PointOf(1)
    /\ dival[1] # 0 /\ dival[0] # dival[1]

\* C9 as stated: when exactly one class term of a point is non-finite, the
\* point's value is the other class's term minus the mixture term, or 0 if
\* that remainder is not finite.
C9_OnlyClassTermZeroed ==
    \A j \in 0..(numx - 1) :
        (j < indx /\ IsFinite(TermAt(j, 0)) # IsFinite(TermAt(j, 1))) =>
            LET other == IF IsFinite(TermAt(j, 0)) THEN TermAt(j, 0) ELSE TermAt(j, 1)
                rem   == FSub(other, MixAt(j))
            IN  dival[j] = IF IsFinite(rem) THEN rem ELSE 0

\* C9 amended: when a class term of a point is non-finite the whole point is
\* stored as 0; the other class's term and the mixture term do not reach the
\* output.
C9_WholePointZeroed ==
    \A j \in 0..(numx - 1) :
        (j < indx /\ (~IsFinite(TermAt(j, 0)) \/ ~IsFinite(TermAt(j, 1)))) =>
            dival[j] = 0

\* a point of the divergence variant whose first class term is non-finite while
\* the second class's term minus the mixture term is finite and not 0
C9_Witness ==
    /\ pc = "returned" /\ variant = "di"
    /\ \E j \in 0..(numx - 1) :
          /\ ~IsFinite(TermAt(j, 0)) /\ IsFinite(TermAt(j, 1))
          /\ IsFinite(FSub(TermAt(j, 1), MixAt(j)))
          /\ FSub(TermAt(j, 1), MixAt(j)) # 0
          /\ dival[j] = 0
====
